---- MODULE Spec2Model ----
(***************************************************************************)
(* The parametric drawer-organizer generator of src/gridfinity.py:         *)
(* Properties (validation), the layout loop of draw_buckets and the        *)
(* make_box pipeline.  All lengths are integers in hundredths of a         *)
(* millimetre (42 mm = 4200), except the row height and y-offsets, which   *)
(* are kept as numerators over units_long (hundredths times units_long).   *)
(***************************************************************************)
EXTENDS Integers, Sequences, FiniteSets, TLC

\* ------------------------------------------------------------- bounds ---
MaxWide == 4
MaxLong == 2
MaxHigh == 3
MaxDrawers == 3

\* weights a row list may hold (generate.py uses 1, 2, 10, 90)
Weights == {1, 2, 5, 8, 10}

\* ---------------------------------------------------------- constants ---
BOTTOM_THICKNESS == 2
small_drawer_width == 15
UNITS_HIGH == 4

Scale == 10 * 10
CELL == 42 * Scale

\* ------------------------------------------------------ configuration ---
\* A row of `divisions`: an int n (isint, n) or a list of weights (ws).
IntRow(n) == [isint |-> TRUE, n |-> n, ws |-> << >>]
ListRow(ws) == [isint |-> FALSE, n |-> 0, ws |-> ws]

SeqsUpTo(S, lo, hi) == UNION {[1..k -> S] : k \in lo..hi}

\* the three rows of DIVISIONS in generate.py
ExampleRows == {ListRow(<<1, 2, 1>>), IntRow(3), ListRow(<<10, 90>>)}

LayoutRows ==
    {IntRow(n) : n \in 0..MaxDrawers}
        \cup {ListRow(ws) : ws \in SeqsUpTo(Weights, 1, MaxDrawers)}

Properties(uw, ul, uh, divs, scoop, ledge, magnet, screw) ==
    [units_wide |-> uw, units_long |-> ul, units_high |-> uh,
     divisions |-> divs,
     draw_finger_scoop |-> scoop, draw_label_ledge |-> ledge,
     make_magnet_hole |-> magnet, make_screw_hole |-> screw]

heightNoOffset(prop) == prop.units_high * 7 * Scale

\* units_high * 7 - 5.6
height(prop) == prop.units_high * 7 * Scale - 560
length(prop) == prop.units_long * CELL
width(prop) == prop.units_wide * CELL

\* __post_init__: the first failing check decides the exception
post_init_HighOffByOne(prop) ==
    IF prop.units_wide < 1 \/ prop.units_long < 1
    THEN "InvalidPropertyError"
    ELSE IF prop.units_high < 1
    THEN "InvalidPropertyError"
    ELSE IF Len(prop.divisions) # prop.units_long
    THEN "IncorrectNumberOfRowsError"
    ELSE "none"

post_init(prop) ==
    IF prop.units_wide < 1 \/ prop.units_long < 1
    THEN "InvalidPropertyError"
    ELSE IF prop.units_high < 2
    THEN "InvalidPropertyError"
    ELSE IF Len(prop.divisions) # prop.units_long
    THEN "IncorrectNumberOfRowsError"
    ELSE "none"

\* ------------------------------------------------------------- layout ---
RECURSIVE sum(_)
sum(s) == IF s = << >> THEN 0 ELSE Head(s) + sum(Tail(s))

\* `if isinstance(row, int): row = [1] * row`
expand(row) == IF row.isint THEN [i \in 1..row.n |-> 1] ELSE row.ws

\* prop.width - (len(row) + 1)
availNoMargin(prop, row) == width(prop) - Len(row) * Scale

avail(prop, row) == width(prop) - (Len(row) + 1) * Scale

\* round(num / den, 2) for num in hundredths: the nearest hundredth, a tie
\* going to the even one.  The double arithmetic of
\* ratio / sum(row) * avail gives the same hundredths for every row and
\* footprint considered here.
round2Truncating(num, den) == num \div den

round2ToTenths(num, den) ==
    LET q == num \div (10 * den)
        r == num % (10 * den)
    IN  10 * (IF 2 * r > 10 * den \/ (2 * r = 10 * den /\ q % 2 = 1)
              THEN q + 1 ELSE q)

round2(num, den) ==
    LET q == num \div den
        r == num % den
    IN  IF 2 * r > den \/ (2 * r = den /\ q % 2 = 1) THEN q + 1 ELSE q

\* widths = [round(ratio / sum(row) * (prop.width - (len(row) + 1)), 2) ...]
widths(prop, row) ==
    [i \in 1..Len(row) |-> round2(row[i] * avail(prop, row), sum(row))]

\* numerator of height = (length - (units_long + 1)) / units_long
bucket_length(prop) == length(prop) - (prop.units_long + 1) * Scale

\* x_origin = x_origin + width + 1
advance(x, w) == x + w + Scale

\* x_origin = 1 at the end of a row
rowResetKeep(x) == x

rowReset(x) == Scale

\* the inner loop `for width in widths`
RECURSIVE loopWidths(_, _, _, _)
loopWidths(prop, st, ws, r) ==
    IF ws = << >> THEN st
    ELSE LET w == Head(ws)
             sketch == [row |-> r, x |-> st.x, y |-> st.y,
                        width |-> w, height |-> bucket_length(prop)]
         IN  loopWidths(prop,
                        [x |-> advance(st.x, w),
                         y |-> st.y,
                         sketches |-> Append(st.sketches, sketch),
                         small |-> st.small \/ w < small_drawer_width * Scale],
                        Tail(ws), r)

\* the outer loop `for row in prop.divisions`; y is a numerator over
\* units_long, so y_origin + height + 1 adds bucket_length + 1 * units_long
RECURSIVE loopRows(_, _, _, _)
loopRows(prop, st, rows, r) ==
    IF rows = << >> THEN st
    ELSE LET row == expand(Head(rows))
             st1 == loopWidths(prop, st, widths(prop, row), r)
         IN  loopRows(prop,
                      [st1 EXCEPT !.x = rowReset(st1.x),
                                  !.y = @ + bucket_length(prop)
                                            + prop.units_long * Scale],
                      Tail(rows), r + 1)

layout(prop) ==
    loopRows(prop,
             [x |-> Scale, y |-> prop.units_long * Scale,
              sketches |-> << >>, small |-> FALSE],
             prop.divisions, 1)

\* ---------------------------------------------------- feature guards ---
ledge_length == 1275

\* not (prop.height < ledge_length + 0.5)
ledgeFits(prop) == ~(height(prop) < ledge_length + 50)

\* which hole the cutter makes: the `if ... is True / elif` chain
holeKindMagnetFirst(prop) ==
    IF ~(prop.make_magnet_hole \/ prop.make_screw_hole) THEN "none"
    ELSE IF prop.make_magnet_hole THEN "hole(6.5, 2.4)"
    ELSE IF prop.make_screw_hole THEN "cboreHole(3, 6.5, 2.4, 6)"
    ELSE "none"

holeKind(prop) ==
    IF ~(prop.make_magnet_hole \/ prop.make_screw_hole) THEN "none"
    ELSE IF prop.make_screw_hole THEN "cboreHole(3, 6.5, 2.4, 6)"
    ELSE IF prop.make_magnet_hole THEN "hole(6.5, 2.4)"
    ELSE "none"

\* ----------------------------------------------------------- pipeline ---
\* the method chain of make_box, in call order
pipelineHolesBeforeMate ==
    <<"drawBases", "drawBuckets", "drawFrontSurface", "drawFingerScoops",
      "drawLabelLedge", "drawMagnetBoreHoles", "drawMate", "shaveOuterShell">>

pipeline ==
    <<"drawBases", "drawBuckets", "drawFrontSurface", "drawFingerScoops",
      "drawLabelLedge", "drawMate", "drawMagnetBoreHoles", "shaveOuterShell">>

\* where the run stands just before `stage` is called
before(stage) ==
    LET i == CHOOSE j \in 1..Len(pipeline) : pipeline[j] = stage
    IN  IF i = 1 THEN "Properties" ELSE pipeline[i - 1]

VARIABLES
    pc,        \* "start", "Properties", the last stage that returned, "done", "failed"
    prop,      \* the arguments of Properties(...)
    out_file,  \* whether make_box was given an out_file
    error,     \* the exception that ended the run, or "none"
    warnings,  \* the warning classes passed to warnings.warn
    stages,    \* the stages that have returned, in order
    box,       \* the Workplane threaded through the chain
    exported   \* whether export_box has written the file

vars == <<pc, prop, out_file, error, warnings, stages, box, exported>>

\* cq.Workplane(): nothing built, the default XY plane
emptyBox ==
    [tiles |-> 0, pockets |-> << >>, cut |-> 0, rib |-> FALSE, scoops |-> 0,
     ledges |-> 0, rim |-> FALSE, holes |-> "none", shaved |-> FALSE,
     zDir |-> "(0,0,1)"]

Start(p, f) ==
    /\ pc = "start"
    /\ prop = p
    /\ out_file = f
    /\ error = "none"
    /\ warnings = {}
    /\ stages = << >>
    /\ box = emptyBox
    /\ exported = FALSE

\* every footprint and flag setting, rows as in generate.py, any row count
Init ==
    \E uw \in 0..MaxWide, ul \in 0..MaxLong, uh \in 1..MaxHigh,
       divs \in SeqsUpTo(ExampleRows, 0, MaxLong),
       scoop \in BOOLEAN, ledge \in BOOLEAN,
       magnet \in BOOLEAN, screw \in BOOLEAN, f \in BOOLEAN :
        Start(Properties(uw, ul, uh, divs, scoop, ledge, magnet, screw), f)

\* the settings of generate.py with every kind of first row, alone or
\* followed by one of the rows of generate.py
InitLayout ==
    \E uw \in 1..MaxWide, row \in LayoutRows,
       rest \in SeqsUpTo(ExampleRows, 0, 1) :
        Start(Properties(uw, 1 + Len(rest), UNITS_HIGH, <<row>> \o rest,
                         TRUE, TRUE, FALSE, FALSE), TRUE)

\* Properties(...): the dataclass runs __post_init__
Construct ==
    /\ pc = "start"
    /\ error' = post_init(prop)
    /\ pc' = IF post_init(prop) = "none" THEN "Properties" ELSE "failed"
    /\ UNCHANGED <<prop, out_file, warnings, stages, box, exported>>

Returned(stage) ==
    /\ pc' = stage
    /\ stages' = Append(stages, stage)
    /\ UNCHANGED <<prop, out_file, error, exported>>

DrawBases ==
    /\ pc = before("drawBases")
    /\ box' = [box EXCEPT !.tiles = prop.units_wide * prop.units_long]
    /\ UNCHANGED warnings
    /\ Returned("drawBases")

DrawBuckets ==
    /\ pc = before("drawBuckets")
    /\ LET st == layout(prop)
       IN  /\ warnings' = IF st.small
                          THEN warnings \cup {"SmallDimensionsWarning"}
                          ELSE warnings
           /\ box' = [box EXCEPT !.pockets = st.sketches,
                                 !.cut = BOTTOM_THICKNESS * Scale - height(prop),
                                 !.zDir = "normal(>Z)"]
    /\ Returned("drawBuckets")

DrawFrontSurface ==
    /\ pc = before("drawFrontSurface")
    /\ box' = [box EXCEPT !.rib = TRUE, !.zDir = "normal(>Z[3])"]
    /\ UNCHANGED warnings
    /\ Returned("drawFrontSurface")

DrawFingerScoops ==
    /\ pc = before("drawFingerScoops")
    /\ box' = IF ~prop.draw_finger_scoop THEN box
              ELSE [box EXCEPT !.scoops = prop.units_long,
                               !.zDir = "normal(>X[1])"]
    /\ UNCHANGED warnings
    /\ Returned("drawFingerScoops")

DrawLabelLedge ==
    /\ pc = before("drawLabelLedge")
    /\ IF ~prop.draw_label_ledge
       THEN UNCHANGED <<box, warnings>>
       ELSE IF ~ledgeFits(prop)
       THEN /\ warnings' = warnings \cup {"CannotDrawLabelLedgesWarning"}
            /\ UNCHANGED box
       ELSE /\ box' = [box EXCEPT !.ledges = prop.units_long,
                                  !.zDir = "normal(>X[1])"]
            /\ UNCHANGED warnings
    /\ Returned("drawLabelLedge")

\* self.union(top): the new object copies the plane
DrawMate ==
    /\ pc = before("drawMate")
    /\ box' = [box EXCEPT !.rim = TRUE]
    /\ UNCHANGED warnings
    /\ Returned("drawMate")

\* `self.plane.zDir = Vector(0, 0, -1)` comes before the flag test
DrawMagnetBoreHoles ==
    /\ pc = before("drawMagnetBoreHoles")
    /\ box' = [box EXCEPT !.zDir = "(0,0,-1)", !.holes = holeKind(prop)]
    /\ UNCHANGED warnings
    /\ Returned("drawMagnetBoreHoles")

ShaveOuterShell ==
    /\ pc = before("shaveOuterShell")
    /\ box' = [box EXCEPT !.shaved = TRUE, !.zDir = "normal(<Z[-1])"]
    /\ UNCHANGED warnings
    /\ Returned("shaveOuterShell")

\* `if out_file: export_box(...)`, then `return box`
MakeBoxReturn ==
    /\ pc = pipeline[Len(pipeline)]
    /\ exported' = out_file
    /\ pc' = "done"
    /\ UNCHANGED <<prop, out_file, error, warnings, stages, box>>

\* a geometry-kernel call of the next stage raises; nothing catches it
StageRaises ==
    /\ pc \in {before(pipeline[i]) : i \in 1..Len(pipeline)}
    /\ pc' = "failed"
    /\ error' = "GeometryOperationError"
    /\ UNCHANGED <<prop, out_file, warnings, stages, box, exported>>

Next ==
    \/ Construct
    \/ DrawBases
    \/ DrawBuckets
    \/ DrawFrontSurface
    \/ DrawFingerScoops
    \/ DrawLabelLedge
    \/ DrawMate
    \/ DrawMagnetBoreHoles
    \/ ShaveOuterShell
    \/ MakeBoxReturn
    \/ StageRaises

Spec == Init /\ [][Next]_vars

SpecLayout == InitLayout /\ [][Next]_vars

\* ------------------------------------------------------------- claims ---
ValidationErrors == {"InvalidPropertyError", "IncorrectNumberOfRowsError"}
DimsBad == prop.units_wide < 1 \/ prop.units_long < 1 \/ prop.units_high < 2
RowsBad == Len(prop.divisions) # prop.units_long
Constructed == pc # "start"
BucketsDrawn == Len(stages) >= 2
HolesCut == Len(stages) >= 7

\* the pockets of row r, left to right
RowPockets(r) == SelectSeq(box.pockets, LAMBDA s : s.row = r)
\* the weights of row r as the claims read them: n ones for an int n
RowCount(r) ==
    IF prop.divisions[r].isint THEN prop.divisions[r].n
    ELSE Len(prop.divisions[r].ws)
RowWeight(r, i) ==
    IF prop.divisions[r].isint THEN 1 ELSE prop.divisions[r].ws[i]
RECURSIVE WeightsTo(_, _)
WeightsTo(r, k) == IF k = 0 THEN 0 ELSE WeightsTo(r, k - 1) + RowWeight(r, k)
RECURSIVE WidthsTo(_, _)
WidthsTo(ps, k) == IF k = 0 THEN 0 ELSE WidthsTo(ps, k - 1) + ps[k].width
Abs(a) == IF a < 0 THEN -a ELSE a
Rows == 1..Len(prop.divisions)
DrawnRows == {r \in Rows : RowCount(r) >= 1}
TotalWidth == prop.units_wide * 4200

\* C1 as stated: construction fails with the invalid-dimension error
\* whenever a dimension is too small, with the row-count error whenever
\* len(divisions) != units_long, and succeeds otherwise; a failed
\* construction runs no stage.
C1_AsStated ==
    Constructed =>
        /\ DimsBad => error = "InvalidPropertyError"
        /\ RowsBad => error = "IncorrectNumberOfRowsError"
        /\ (~DimsBad /\ ~RowsBad) => error \notin ValidationErrors
        /\ error \in ValidationErrors => pc = "failed" /\ stages = << >>

\* C1 amended: construction fails with the invalid-dimension error whenever
\* units_wide < 1, units_long < 1 or units_high < 2; with the row-count
\* error whenever the dimensions are valid and len(divisions) !=
\* units_long; it succeeds in every other case, and a failed construction
\* runs no stage.
C1_Validation ==
    Constructed =>
        /\ DimsBad => error = "InvalidPropertyError"
        /\ (~DimsBad /\ RowsBad) => error = "IncorrectNumberOfRowsError"
        /\ (~DimsBad /\ ~RowsBad) => error \notin ValidationErrors
        /\ error \in ValidationErrors => pc = "failed" /\ stages = << >>

C1_Witness ==
    /\ pc = "failed"
    /\ prop.units_high = 2
    /\ prop.units_wide >= 1
    /\ RowsBad
    /\ error = "IncorrectNumberOfRowsError"

\* C2: every row gets one pocket per weight (an int n counts as n weights
\* of 1), each as wide as its share of width - (count + 1) mm to the
\* nearest hundredth; [3] on 4 units gives 54.67 three times and [1,2,1]
\* on 4 units gives 41, 82, 41.
C2_Widths ==
    BucketsDrawn =>
        \A r \in Rows :
            LET ps == RowPockets(r)
                n == RowCount(r)
                total == WeightsTo(r, n)
                share == prop.units_wide * 42 - (n + 1)
            IN  /\ Len(ps) = n
                /\ \A i \in 1..n :
                       2 * Abs(ps[i].width * total
                               - 100 * RowWeight(r, i) * share) <= total
                /\ (prop.units_wide = 4 /\ prop.divisions[r] = IntRow(3)) =>
                       [i \in 1..n |-> ps[i].width] = <<5467, 5467, 5467>>
                /\ (prop.units_wide = 4
                    /\ prop.divisions[r] = ListRow(<<1, 2, 1>>)) =>
                       [i \in 1..n |-> ps[i].width] = <<4100, 8200, 4100>>

C2_Witness ==
    /\ BucketsDrawn
    /\ prop.units_wide = 4
    /\ prop.divisions = <<IntRow(3)>>
    /\ Len(box.pockets) = 3
    /\ box.pockets[1].width = 5467

\* C3: in every row with at least one drawer, the pocket widths plus
\* (count + 1) mm differ from units_wide * 42 mm by at most 0.01 mm per
\* drawer.
C3_RowSum ==
    BucketsDrawn =>
        \A r \in DrawnRows :
            LET ps == RowPockets(r)
            IN  Abs(WidthsTo(ps, Len(ps)) + (Len(ps) + 1) * 100 - TotalWidth)
                    <= Len(ps)

C3_Witness ==
    /\ BucketsDrawn
    /\ \E r \in DrawnRows :
           LET ps == RowPockets(r)
           IN  WidthsTo(ps, Len(ps)) + (Len(ps) + 1) * 100 # TotalWidth

\* C4: the first pocket of every row starts at the 1 mm margin and every
\* other pocket starts exactly 1 mm after the right edge of the pocket
\* before it, so x grows strictly and no two pockets of a row overlap.
C4_Placement ==
    BucketsDrawn =>
        \A r \in DrawnRows :
            LET ps == RowPockets(r)
            IN  /\ ps[1].x = 100
                /\ \A i \in 2..Len(ps) :
                       /\ ps[i].x = ps[i - 1].x + ps[i - 1].width + 100
                       /\ ps[i].x > ps[i - 1].x
                       /\ ps[i].x >= ps[i - 1].x + ps[i - 1].width

C4_Witness ==
    /\ BucketsDrawn
    /\ Len(prop.divisions) = 2
    /\ Len(RowPockets(1)) = 3
    /\ Len(RowPockets(2)) = 2
    /\ RowPockets(2)[1].x = 100
    /\ RowPockets(2)[2].x > 100

\* C5 as stated: the small-drawer warning is raised exactly when some
\* pocket is 15 mm wide or less, and the layout is produced all the same.
C5_AsStated ==
    BucketsDrawn =>
        /\ ("SmallDimensionsWarning" \in warnings)
               <=> (\E i \in 1..Len(box.pockets) : box.pockets[i].width <= 1500)
        /\ \A r \in Rows : Len(RowPockets(r)) = RowCount(r)

\* C6: with draw_label_ledge and height below 13.25 mm the stage returns
\* the box as it was and warns; with draw_label_ledge and height at least
\* 13.25 mm it cuts units_long notches and does not warn; without
\* draw_label_ledge it returns the box as it was and does not warn.
C6_LabelLedge ==
    [][(pc = "drawFingerScoops" /\ pc' = "drawLabelLedge") =>
        IF prop.draw_label_ledge /\ prop.units_high * 700 - 560 < 1325
        THEN /\ box' = box
             /\ warnings' = warnings \cup {"CannotDrawLabelLedgesWarning"}
             /\ error' = "none"
        ELSE IF prop.draw_label_ledge
        THEN /\ box'.ledges = prop.units_long
             /\ box.ledges = 0
             /\ warnings' = warnings
        ELSE /\ box' = box
             /\ warnings' = warnings]_vars

C6_Witness ==
    /\ pc = "drawLabelLedge"
    /\ prop.draw_label_ledge
    /\ prop.units_high = 2
    /\ "CannotDrawLabelLedgesWarning" \in warnings
    /\ box.ledges = 0

\* C7 as stated: with neither fastener flag set the cutter returns the box
\* exactly as it received it, plane orientation included.
C7_AsStated ==
    [][(/\ pc = "drawMate"
        /\ pc' = "drawMagnetBoreHoles"
        /\ ~prop.make_magnet_hole
        /\ ~prop.make_screw_hole) => box' = box]_vars

\* C8 as stated: for every setting of the two flags exactly one kind of
\* hole is cut: screw holes whenever make_screw_hole, magnet bores only
\* when make_magnet_hole and not make_screw_hole.
C8_AsStated ==
    HolesCut =>
        /\ box.holes \in {"cboreHole(3, 6.5, 2.4, 6)", "hole(6.5, 2.4)"}
        /\ prop.make_screw_hole => box.holes = "cboreHole(3, 6.5, 2.4, 6)"
        /\ box.holes = "hole(6.5, 2.4)" =>
               prop.make_magnet_hole /\ ~prop.make_screw_hole

\* C8 amended: at most one kind of hole is cut: screw holes (3 mm pilot,
\* 6.5 mm counterbore, 2.4 mm deep, depth 6) whenever make_screw_hole,
\* magnet bores (6.5 mm, 2.4 mm deep) exactly when make_magnet_hole and
\* not make_screw_hole, and no hole when both flags are false.
C8_HoleKind ==
    HolesCut =>
        /\ prop.make_screw_hole <=> box.holes = "cboreHole(3, 6.5, 2.4, 6)"
        /\ (prop.make_magnet_hole /\ ~prop.make_screw_hole)
               <=> box.holes = "hole(6.5, 2.4)"
        /\ (~prop.make_magnet_hole /\ ~prop.make_screw_hole)
               <=> box.holes = "none"

C8_Witness ==
    /\ HolesCut
    /\ prop.make_magnet_hole
    /\ prop.make_screw_hole
    /\ box.holes = "cboreHole(3, 6.5, 2.4, 6)"

\* C9: the stages return in the one fixed order, each once; the file is
\* written only after shaveOuterShell has returned, never in a failed
\* run, and always in a finished run that was given an out_file; a
\* warning is never the error that ends a run.
StageOrder ==
    <<"drawBases", "drawBuckets", "drawFrontSurface", "drawFingerScoops",
      "drawLabelLedge", "drawMate", "drawMagnetBoreHoles", "shaveOuterShell">>
C10_AsStated ==
    BucketsDrawn =>
        \A r \in DrawnRows :
            LET ps == RowPockets(r)
                last == ps[Len(ps)]
            IN  last.x + last.width <= TotalWidth - 100

\* C10 amended: in every row with at least one drawer the right edge of
\* the last pocket is at most width - 1 mm + 0.01 mm per drawer of the row
\* from the left side.
C10_RightMargin ==
    BucketsDrawn =>
        \A r \in DrawnRows :
            LET ps == RowPockets(r)
                last == ps[Len(ps)]
            IN  last.x + last.width <= TotalWidth - 100 + Len(ps)

C10_Witness ==
    /\ BucketsDrawn
    /\ \E r \in DrawnRows :
           LET ps == RowPockets(r)
               last == ps[Len(ps)]
           IN  last.x + last.width > TotalWidth - 100

====
